---- MODULE Spec2Model ----
(***************************************************************************)
(* Model of the MSSQL MCP servers (server.py, server_jumbos.py): the       *)
(* helpers validate_table_name and get_db_config, the text formatting of   *)
(* result sets, and the tool handlers execute_sql,                         *)
(* report_trial_balance_by_seg_ref, count_user_logins, list_sql_tables,    *)
(* read_table_preview and ping.                                            *)
(*                                                                         *)
(* Text is a sequence of tokens.  Everything the code computes character   *)
(* by character (identifiers, environment values, column names, str() of   *)
(* a cell, the separators "," and "\n") is a sequence of one-character     *)
(* strings.  A fixed message fragment of an f-string and the message of a  *)
(* driver exception are single tokens.                                     *)
(***************************************************************************)
EXTENDS Integers, Sequences, FiniteSets, TLC

VARIABLES env, inv, conns, pureIn, pureOut

vars == <<env, inv, conns, pureIn, pureOut>>

----------------------------------------------------------------------------
(* Bounds of the model.                                                    *)

\* longest table name drawn for validate_table_name
MaxNameLen == 4
\* most rows in a result set drawn for the formatting functions
MaxRows == 2
\* number of invocations in flight at once in the concurrent specification
NumInv == 2

----------------------------------------------------------------------------
(* Characters and generic string functions.                                *)

LowerLetters ==
    <<"a","b","c","d","e","f","g","h","i","j","k","l","m",
      "n","o","p","q","r","s","t","u","v","w","x","y","z">>

UpperLetters ==
    <<"A","B","C","D","E","F","G","H","I","J","K","L","M",
      "N","O","P","Q","R","S","T","U","V","W","X","Y","Z">>

Digits == <<"0","1","2","3","4","5","6","7","8","9">>

Range(s) == {s[k] : k \in DOMAIN s}

\* the character class [a-zA-Z0-9_]
IsWordChar(c) ==
    c \in Range(LowerLetters) \cup Range(UpperLetters) \cup Range(Digits) \cup {"_"}

\* str.lower() on one character
LowerChar(c) ==
    IF c \in Range(UpperLetters)
    THEN LowerLetters[CHOOSE k \in DOMAIN UpperLetters : UpperLetters[k] = c]
    ELSE c

\* str.lower()
Lower(s) == [k \in DOMAIN s |-> LowerChar(s[k])]

\* sep.join(parts)
RECURSIVE Join(_, _)
Join(parts, sep) ==
    IF parts = <<>> THEN <<>>
    ELSE IF Len(parts) = 1 THEN parts[1]
    ELSE parts[1] \o sep \o Join(Tail(parts), sep)

\* s.split(c) for a one-character separator c
RECURSIVE Split(_, _)
Split(s, c) ==
    IF \A k \in DOMAIN s : s[k] # c THEN <<s>>
    ELSE LET p == CHOOSE k \in DOMAIN s :
                      s[k] = c /\ \A j \in 1..(k - 1) : s[j] # c
         IN  <<SubSeq(s, 1, p - 1)>> \o Split(SubSeq(s, p + 1, Len(s)), c)

\* all sequences over S of length at most n
SeqsUpTo(S, n) == UNION {[1..k -> S] : k \in 0..n}

----------------------------------------------------------------------------
(* validate_table_name                                                     *)

\* the first p characters of s are one or more word characters
WordRun(s, from, to) ==
    /\ from <= to
    /\ \A k \in from..to : IsWordChar(s[k])

\* [a-zA-Z0-9_]+(\.[a-zA-Z0-9_]+)? consumes exactly the first p characters
PatternConsumes(s, p) ==
    \/ WordRun(s, 1, p)
    \/ \E d \in 2..(p - 1) :
          /\ s[d] = "."
          /\ WordRun(s, 1, d - 1)
          /\ WordRun(s, d + 1, p)

\* the '$' of a pattern compiled without re.MULTILINE, after p characters:
\* the end of the string, or just before a newline that ends the string
DollarAt(s, p) ==
    \/ p = Len(s)
    \/ p = Len(s) - 1 /\ s[Len(s)] = "\n"

\* re.match(r'^[a-zA-Z0-9_]+(\.[a-zA-Z0-9_]+)?$', s)
ReMatch(s) == \E p \in 1..Len(s) : PatternConsumes(s, p) /\ DollarAt(s, p)

Raise(type, msg) == [ok |-> FALSE, exc |-> type, val |-> msg]

Value(v) == [ok |-> TRUE, exc |-> "", val |-> v]

validate_table_name(table_name) ==
    IF ~ReMatch(table_name)
    THEN Raise("ValueError", <<"Invalid table name: ">> \o table_name)
    ELSE LET parts == Split(table_name, ".")
         IN  IF Len(parts) = 2
             THEN Value(<<"[">> \o parts[1] \o <<"]", ".", "[">> \o parts[2] \o <<"]">>)
             ELSE Value(<<"[">> \o table_name \o <<"]">>)

\* characters the drawn table names are made of
NameAlphabet == {"a", "Z", "1", "_", ".", " ", "\n", ";"}

\* the function being applied has not been applied yet
Pending == [ok |-> FALSE, exc |-> "pending", val |-> <<>>]

\* no pure function is being applied (the server specification)
NoCall == [fn |-> "none", arg |-> <<>>]

----------------------------------------------------------------------------
(* get_db_config                                                           *)

\* os.getenv gives None for a variable that is not set
None == [set |-> FALSE, val |-> <<>>]

Str(chars) == [set |-> TRUE, val |-> chars]

\* os.getenv(name) and os.getenv(name, default) on the environment e
Getenv(e, name) == e[name]

GetenvDefault(e, name, default) == IF e[name].set THEN e[name].val ELSE default

\* truth value of an optional string: None and "" are false
Truthy(x) == x.set /\ x.val # <<>>

StartsWith(s, prefix) ==
    Len(s) >= Len(prefix) /\ SubSeq(s, 1, Len(prefix)) = prefix

\* s.replace(old, new), old not empty
RECURSIVE Replace(_, _, _)
Replace(s, old, new) ==
    IF s = <<>> THEN <<>>
    ELSE IF StartsWith(s, old)
         THEN new \o Replace(SubSeq(s, Len(old) + 1, Len(s)), old, new)
         ELSE <<s[1]>> \o Replace(Tail(s), old, new)

Whitespace == {" ", "\t", "\n", "\r"}

RECURSIVE LStrip(_)
LStrip(s) == IF s # <<>> /\ s[1] \in Whitespace THEN LStrip(Tail(s)) ELSE s

RECURSIVE RStrip(_)
RStrip(s) ==
    IF s # <<>> /\ s[Len(s)] \in Whitespace THEN RStrip(SubSeq(s, 1, Len(s) - 1)) ELSE s

DigitValue(c) == (CHOOSE k \in DOMAIN Digits : Digits[k] = c) - 1

\* decimal digits with single underscores between them
IsDigitRun(s) ==
    /\ s # <<>>
    /\ \A k \in DOMAIN s : s[k] \in Range(Digits) \cup {"_"}
    /\ s[1] # "_" /\ s[Len(s)] # "_"
    /\ \A k \in 1..(Len(s) - 1) : ~(s[k] = "_" /\ s[k + 1] = "_")

RECURSIVE DigitRunValue(_)
DigitRunValue(s) ==
    IF s = <<>> THEN 0
    ELSE IF s[Len(s)] = "_" THEN DigitRunValue(SubSeq(s, 1, Len(s) - 1))
    ELSE 10 * DigitRunValue(SubSeq(s, 1, Len(s) - 1)) + DigitValue(s[Len(s)])

\* int(s) for a string s (base 10)
ParseInt(s) ==
    LET t    == RStrip(LStrip(s))
        sign == IF t # <<>> /\ t[1] \in {"+", "-"} THEN t[1] ELSE ""
        body == IF sign = "" THEN t ELSE Tail(t)
    IN  IF IsDigitRun(body)
        THEN Value(IF sign = "-" THEN 0 - DigitRunValue(body) ELSE DigitRunValue(body))
        ELSE Raise("ValueError", <<"invalid literal for int() with base 10: ">> \o s)

LocalDbPrefix == <<"(", "l", "o", "c", "a", "l", "d", "b", ")", "\\">>

\* lines 29-36: the server name, with (localdb)\X rewritten to .\X
ServerName(e) ==
    LET server == GetenvDefault(e, "MSSQL_SERVER",
                                <<"l", "o", "c", "a", "l", "h", "o", "s", "t">>)
    IN  IF StartsWith(server, LocalDbPrefix)
        THEN <<".", "\\">> \o Replace(server, LocalDbPrefix, <<>>)
        ELSE server

\* config.pop(key, None)
Pop(config, key) ==
    [config EXCEPT !.keys = @ \ {key}, ![key] = None]

\* a plausible slip: the credentials stay in the dictionary under
\* Windows authentication
AuthBranchKeepsCredentials(config, use_windows_auth) ==
    IF use_windows_auth
    THEN IF ~Truthy(config.database)
         THEN Raise("ValueError", <<"Missing required database configuration">>)
         ELSE Value(config)
    ELSE IF ~(Truthy(config.user) /\ Truthy(config.password) /\ Truthy(config.database))
         THEN Raise("ValueError", <<"Missing required database configuration">>)
         ELSE Value(config)

\* lines 48-60: the authentication switch
AuthBranch(config, use_windows_auth) ==
    IF use_windows_auth
    THEN IF ~Truthy(config.database)
         THEN Raise("ValueError", <<"Missing required database configuration">>)
         ELSE Value(Pop(Pop(config, "user"), "password"))
    ELSE IF ~(Truthy(config.user) /\ Truthy(config.password) /\ Truthy(config.database))
         THEN Raise("ValueError", <<"Missing required database configuration">>)
         ELSE Value(config)

get_db_config(e) ==
    LET port == ParseInt(GetenvDefault(e, "MSSQL_PORT", <<"1", "4", "3", "3">>))
        use_windows_auth ==
            Lower(GetenvDefault(e, "MSSQL_WINDOWS_AUTH", <<"f", "a", "l", "s", "e">>))
                = <<"t", "r", "u", "e">>
    IN  IF ~port.ok THEN port
        ELSE AuthBranch([keys     |-> {"server", "user", "password", "database", "port"},
                         server   |-> ServerName(e),
                         user     |-> Getenv(e, "MSSQL_USER"),
                         password |-> Getenv(e, "MSSQL_PASSWORD"),
                         database |-> Getenv(e, "MSSQL_DATABASE"),
                         port     |-> port.val],
                        use_windows_auth)

EnvNames ==
    {"MSSQL_SERVER", "MSSQL_USER", "MSSQL_PASSWORD", "MSSQL_DATABASE",
     "MSSQL_PORT", "MSSQL_WINDOWS_AUTH"}

\* the environments drawn for get_db_config
ServerValues == {None, Str(<<"h">>), Str(LocalDbPrefix \o <<"I">>)}

CredentialValues == {None, Str(<<>>), Str(<<"x">>)}

PortValues ==
    {None, Str(<<>>), Str(<<"x">>), Str(<<"0">>), Str(<<"-", "1">>), Str(<<"1">>),
     Str(<<"6", "5", "5", "3", "5">>), Str(<<"6", "5", "5", "3", "6">>),
     Str(<<"7", "0", "0", "0", "0">>)}

FlagValues ==
    {None, Str(<<>>), Str(<<"t", "r", "u", "e">>), Str(<<"T", "R", "U", "E">>),
     Str(<<"f", "a", "l", "s", "e">>)}

Environments ==
    {[n \in EnvNames |->
        CASE n = "MSSQL_SERVER"       -> s
          [] n = "MSSQL_USER"         -> u
          [] n = "MSSQL_PASSWORD"     -> p
          [] n = "MSSQL_DATABASE"     -> d
          [] n = "MSSQL_PORT"         -> q
          [] n = "MSSQL_WINDOWS_AUTH" -> w] :
        s \in ServerValues, u \in CredentialValues, p \in CredentialValues,
        d \in CredentialValues, q \in PortValues, w \in FlagValues}

----------------------------------------------------------------------------
(* Result sets and their text.                                             *)

\* a cell of a row: an integer, a string or None
IntCell(n) == [t |-> "int", i |-> n, s |-> <<>>]

StrCell(chars) == [t |-> "str", i |-> 0, s |-> chars]

NoneCell == [t |-> "none", i |-> 0, s |-> <<>>]

\* str(n) for an integer n
RECURSIVE NatToStr(_)
NatToStr(n) ==
    IF n < 10 THEN <<Digits[n + 1]>>
    ELSE NatToStr(n \div 10) \o <<Digits[(n % 10) + 1]>>

IntToStr(n) == IF n < 0 THEN <<"-">> \o NatToStr(0 - n) ELSE NatToStr(n)

\* str(value) for a cell
PyStr(cell) ==
    CASE cell.t = "int"  -> IntToStr(cell.i)
      [] cell.t = "str"  -> cell.s
      [] cell.t = "none" -> <<"N", "o", "n", "e">>

\* ",".join(map(str, row))
RowText(row) == Join([j \in DOMAIN row |-> PyStr(row[j])], <<",">>)

\* a plausible slip: the header line is left out
FormatCsvNoHeader(columns, rows) ==
    Join([k \in DOMAIN rows |-> RowText(rows[k])], <<"\n">>)

\* "\n".join([",".join(columns)] + [",".join(map(str, row)) for row in rows])
FormatCsv(columns, rows) ==
    Join(<<Join(columns, <<",">>)>> \o [k \in DOMAIN rows |-> RowText(rows[k])],
         <<"\n">>)

\* f"Query executed successfully. Rows affected: {affected_rows}"
AffectedText(affected_rows) ==
    <<"Query executed successfully. Rows affected: ">> \o IntToStr(affected_rows)

\* f"{user_id} appeared {count} times in {year}"
CountText(user_id, count, year) ==
    user_id \o <<" appeared ">> \o PyStr(count) \o <<" times in ">> \o year

NoTablesText == <<"No tables found in this database.">>

NoDataText == <<"No data found in this table.">>

ListHeader == <<"S", "c", "h", "e", "m", "a", ",", "T", "a", "b", "l", "e">>

\* list_sql_tables, after the fetch: every row is a (schema, name) pair
ListTablesText(tables) ==
    IF tables = <<>> THEN NoTablesText
    ELSE Join(<<ListHeader>> \o
              [k \in DOMAIN tables |->
                  PyStr(tables[k][1]) \o <<",">> \o PyStr(tables[k][2])],
              <<"\n">>)

\* read_table_preview, after the fetch
PreviewText(columns, rows) ==
    IF rows = <<>> THEN NoDataText ELSE FormatCsv(columns, rows)

\* the column names of the statement of list_sql_tables
ListDescription ==
    << <<"T", "A", "B", "L", "E", "_", "S", "C", "H", "E", "M", "A">>,
       <<"T", "A", "B", "L", "E", "_", "N", "A", "M", "E">> >>

FormattingOps ==
    {"execute_sql", "report_trial_balance_by_seg_ref", "read_table_preview",
     "list_sql_tables"}

\* the text a handler makes of a fetched result set
ResultText(op, columns, rows) ==
    CASE op = "execute_sql"                     -> FormatCsv(columns, rows)
      [] op = "report_trial_balance_by_seg_ref" -> FormatCsv(columns, rows)
      [] op = "read_table_preview"              -> PreviewText(columns, rows)
      [] op = "list_sql_tables"                 -> ListTablesText(rows)

\* the result sets drawn for the formatting functions
ColumnLists == {<< <<"a">> >>, << <<"a">>, <<"b">> >>}

Cells == {IntCell(1), IntCell(2), IntCell(3), IntCell(4), IntCell(0 - 12), NoneCell}

NameCells == {StrCell(<<"d", "b", "o">>), StrCell(<<"t", "1">>)}

RowSets(cells, width) == SeqsUpTo([1..width -> cells], MaxRows)

ResultSets ==
    {[op |-> o, columns |-> c, rows |-> r] :
        o \in FormattingOps \ {"list_sql_tables"}, c \in ColumnLists,
        r \in UNION {RowSets(Cells, w) : w \in 1..2}}

FormatInputs ==
    {x \in ResultSets : \A k \in DOMAIN x.rows : Len(x.rows[k]) = Len(x.columns)}
    \cup {[op |-> "list_sql_tables", columns |-> ListDescription, rows |-> r] :
             r \in RowSets(NameCells, 2)}

----------------------------------------------------------------------------
(* The server: invocations of the tool handlers.                           *)

\* the invocation slots of the running server
Procs == DOMAIN inv

\* the tool calls the transport dispatches
Calls ==
    {[op |-> "execute_sql", args |-> <<StrCell(<<"Q">>)>>],
     [op |-> "report_trial_balance_by_seg_ref",
      args |-> <<StrCell(<<"2024-01-01">>), StrCell(<<"2024-12-31">>),
                 StrCell(<<"7206-0000%">>)>>],
     [op |-> "count_user_logins", args |-> <<StrCell(<<"alice">>), IntCell(2023)>>],
     [op |-> "count_user_logins",
      args |-> <<StrCell(<<"alice">>), StrCell(<<"2", "0", "2", "3">>)>>],
     [op |-> "list_sql_tables", args |-> <<>>],
     [op |-> "read_table_preview", args |-> <<StrCell(<<"t", "1">>)>>],
     [op |-> "read_table_preview",
      args |-> <<StrCell(<<"1", "b", "a", "d", " ", "n", "a", "m", "e">>)>>],
     [op |-> "ping", args |-> <<>>]}

\* the environments the server runs under
EnvWith(d, w) ==
    [n \in EnvNames |->
        CASE n = "MSSQL_USER"         -> Str(<<"x">>)
          [] n = "MSSQL_PASSWORD"     -> Str(<<"x">>)
          [] n = "MSSQL_DATABASE"     -> d
          [] n = "MSSQL_WINDOWS_AUTH" -> w
          [] OTHER                    -> None]

ServerEnvs ==
    {EnvWith(Str(<<"x">>), None), EnvWith(Str(<<"x">>), Str(<<"t", "r", "u", "e">>)),
     EnvWith(None, None)}

NoConfig ==
    [keys |-> {}, server |-> <<>>, user |-> None, password |-> None,
     database |-> None, port |-> 0]

\* the environment with nothing set
NoEnv == [n \in EnvNames |-> None]

NoResult == [kind |-> "none", exc |-> "", text |-> <<>>]

IdleInv ==
    [pc |-> "idle", op |-> "", args |-> <<>>, config |-> NoConfig, envRead |-> NoEnv,
     safe_table |-> <<>>, columns |-> <<>>, rows |-> <<>>, output |-> <<>>,
     result |-> NoResult, failedAt |-> "",
     nConfig |-> 0, nValidate |-> 0, nConnect |-> 0, nExecute |-> 0, nFetch |-> 0,
     nCommit |-> 0]

\* a connection object of pymssql with its cursor
NewConn(config) ==
    [config |-> config, open |-> TRUE, cursor |-> "none", statement |-> <<>>,
     executed |-> FALSE, hasDescription |-> FALSE, description |-> <<>>,
     rowcount |-> 0 - 1, committed |-> FALSE]

\* the connection the invocation holds in its variable conn
Conn(i) == conns[i][Len(conns[i])]

\* the text of the except clause of each handler
ErrorText(op, args, msg) ==
    CASE op = "execute_sql" -> <<"Error executing query: ">> \o msg
      [] op \in {"report_trial_balance_by_seg_ref", "count_user_logins"} ->
            <<"Error: ">> \o msg
      [] op = "list_sql_tables" -> <<"Error listing tables: ">> \o msg
      [] op = "read_table_preview" ->
            <<"Error reading table '">> \o args[1].s \o <<"': ">> \o msg

StringResult(text) == [kind |-> "string", exc |-> "", text |-> text]

\* an exception leaves the handler
Raised(r) == [kind |-> "exception", exc |-> r.exc, text |-> r.val]

\* the handler returns or raises; its variables stay as they were then
Finish(v, res, at) == [v EXCEPT !.pc = "done", !.result = res, !.failedAt = at]

\* except Exception as e: return f"...{str(e)}"
Except(v, msg, at) == Finish(v, StringResult(ErrorText(v.op, v.args, msg)), at)

\* str(e) of the exception a failing driver call raises
DriverMessage(call) ==
    CASE call = "connect" -> <<"connection failed">>
      [] call = "cursor"  -> <<"cursor failed">>
      [] call = "execute" -> <<"statement failed">>
      [] call = "fetch"   -> <<"fetch failed">>
      [] call = "commit"  -> <<"commit failed">>

\* a plausible slip: a failed connection is tried again
ConnectFailedRetries(v) == [v EXCEPT !.pc = "connect"]

\* pymssql.connect raises: the except clause ends the invocation
ConnectFailed(v) == Except(v, DriverMessage("connect"), "connect")

\* the calls dispatched in the concurrent specification
ConcurrentCalls ==
    {c \in Calls :
        \/ c.op \in {"execute_sql", "ping"}
        \/ c.op = "read_table_preview" /\ ~validate_table_name(c.args[1].s).ok}

InitServer(slots) ==
    /\ env \in ServerEnvs
    /\ inv = [i \in slots |-> IdleInv]
    /\ conns = [i \in slots |-> <<>>]
    /\ pureIn = NoCall
    /\ pureOut = Pending

\* the transport calls a handler
DispatchFrom(i, calls) ==
    /\ inv[i].pc = "idle"
    /\ \E c \in calls :
          inv' = [inv EXCEPT ![i] = [@ EXCEPT !.op = c.op, !.args = c.args,
                      !.pc = IF c.op = "ping" THEN "body" ELSE "config"]]
    /\ UNCHANGED <<env, conns, pureIn, pureOut>>

Dispatch(i) == DispatchFrom(i, Calls)

DispatchConcurrent(i) == DispatchFrom(i, ConcurrentCalls)

\* the transport sends the result to the caller; the server takes the next call
Deliver(i) ==
    /\ inv[i].pc = "done"
    /\ inv' = [inv EXCEPT ![i] = IdleInv]
    /\ conns' = [conns EXCEPT ![i] = <<>>]
    /\ UNCHANGED <<env, pureIn, pureOut>>

\* a plausible slip: the configuration is resolved once and kept for later calls
ConfigForCached(i) ==
    IF \E j \in Procs : j # i /\ inv[j].nConfig > 0 /\ inv[j].config # NoConfig
    THEN Value(inv[CHOOSE j \in Procs :
                      j # i /\ inv[j].nConfig > 0 /\ inv[j].config # NoConfig].config)
    ELSE get_db_config(env)

\* config = get_db_config(), first statement of every handler but ping
ConfigFor(i) == get_db_config(env)

GetConfig(i) ==
    /\ inv[i].pc = "config"
    /\ LET r == ConfigFor(i)
           v == [inv[i] EXCEPT !.nConfig = @ + 1, !.envRead = env]
       IN  inv' = [inv EXCEPT ![i] =
                      IF ~r.ok THEN Finish(v, Raised(r), "config")
                      ELSE [v EXCEPT !.config = r.val,
                                     !.pc = IF v.op = "read_table_preview"
                                            THEN "validate" ELSE "connect"]]
    /\ UNCHANGED <<env, conns, pureIn, pureOut>>

\* safe_table = validate_table_name(table_name)
Validate(i) ==
    /\ inv[i].pc = "validate"
    /\ LET r == validate_table_name(inv[i].args[1].s)
           v == [inv[i] EXCEPT !.nValidate = @ + 1]
       IN  inv' = [inv EXCEPT ![i] =
                      IF ~r.ok THEN Except(v, r.val, "validate")
                      ELSE [v EXCEPT !.safe_table = r.val, !.pc = "connect"]]
    /\ UNCHANGED <<env, conns, pureIn, pureOut>>

\* conn = pymssql.connect(**config)
Connect(i) ==
    /\ inv[i].pc = "connect"
    /\ LET v == [inv[i] EXCEPT !.nConnect = @ + 1]
       IN  \/ /\ inv' = [inv EXCEPT ![i] = [v EXCEPT !.pc = "cursor"]]
              /\ conns' = [conns EXCEPT ![i] = Append(@, NewConn(v.config))]
           \/ /\ inv' = [inv EXCEPT ![i] = ConnectFailed(v)]
              /\ UNCHANGED conns
    /\ UNCHANGED <<env, pureIn, pureOut>>

\* cursor = conn.cursor()
Cursor(i) ==
    /\ inv[i].pc = "cursor"
    /\ \/ /\ inv' = [inv EXCEPT ![i].pc = "execute"]
          /\ conns' = [conns EXCEPT ![i][Len(conns[i])].cursor = "open"]
       \/ /\ inv' = [inv EXCEPT ![i] = Except(@, DriverMessage("cursor"), "cursor")]
          /\ UNCHANGED conns
    /\ UNCHANGED <<env, pureIn, pureOut>>

\* the statement each handler passes to cursor.execute
StatementOf(v) ==
    CASE v.op = "execute_sql" -> v.args[1].s
      [] v.op = "report_trial_balance_by_seg_ref" -> <<"WITH TransactionData AS ...">>
      [] v.op = "count_user_logins" -> <<"SELECT COUNT(*) AS appearances ...">>
      [] v.op = "list_sql_tables" -> <<"SELECT TABLE_SCHEMA, TABLE_NAME ...">>
      [] v.op = "read_table_preview" -> <<"SELECT TOP 100 * FROM ">> \o v.safe_table

ReportDescription ==
    << <<"Date">>, <<"Journal Entry">>, <<"Doc. Type">>, <<"Source Doc ID">>,
       <<"Reference #">>, <<"Source Ref #">>, <<"Description">>, <<"Backdated">>,
       <<"Debits">>, <<"Credits">>, <<"Ending Balance">> >>

\* what the engine answers to a statement that executes: no description and
\* a count of modified rows, or the description of a result set
Affected(n) == [hasDescription |-> FALSE, description |-> <<>>, rowcount |-> n]

Described(columns) ==
    [hasDescription |-> TRUE, description |-> columns, rowcount |-> 0 - 1]

ExecuteAnswers(op) ==
    CASE op = "execute_sql" -> {Affected(3), Described(<< <<"a">> >>)}
      [] op = "report_trial_balance_by_seg_ref" -> {Described(ReportDescription)}
      [] op = "count_user_logins" ->
            {Described(<< <<"a", "p", "p", "e", "a", "r", "a", "n", "c", "e", "s">> >>)}
      [] op = "list_sql_tables" -> {Described(ListDescription)}
      [] op = "read_table_preview" -> {Described(<< <<"a">> >>)}

\* the rows the engine delivers to fetchall (fetchone for the count)
FetchAnswers(op) ==
    CASE op \in {"execute_sql", "read_table_preview"} -> {<<>>, << <<IntCell(1)>> >>}
      [] op = "report_trial_balance_by_seg_ref" ->
            {<<>>, << [k \in 1..Len(ReportDescription) |-> IntCell(k)] >>}
      [] op = "count_user_logins" -> {<< <<IntCell(3)>> >>}
      [] op = "list_sql_tables" ->
            {<<>>, << <<StrCell(<<"d", "b", "o">>), StrCell(<<"t", "1">>)>> >>}

\* a plausible slip: execute_sql commits whatever the statement was
AfterExecuteAlwaysCommit(op, hasDescription) ==
    IF op = "execute_sql" THEN "commit" ELSE "fetch"

\* line 76: execute_sql looks at cursor.description; the other handlers fetch
AfterExecute(op, hasDescription) ==
    IF op = "execute_sql" /\ ~hasDescription THEN "commit" ELSE "fetch"

\* cursor.execute(statement, parameters)
Execute(i) ==
    /\ inv[i].pc = "execute"
    /\ LET v == [inv[i] EXCEPT !.nExecute = @ + 1]
       IN  \/ /\ inv' = [inv EXCEPT ![i] = Except(v, DriverMessage("execute"), "execute")]
              /\ conns' = [conns EXCEPT ![i][Len(conns[i])].statement = StatementOf(v)]
           \/ \E a \in ExecuteAnswers(v.op) :
                 /\ inv' = [inv EXCEPT ![i] =
                       [v EXCEPT !.pc = AfterExecute(v.op, a.hasDescription),
                                 !.columns = IF v.op = "list_sql_tables"
                                             THEN <<>> ELSE a.description]]
                 /\ conns' = [conns EXCEPT ![i][Len(conns[i])] =
                       [@ EXCEPT !.statement = StatementOf(v), !.executed = TRUE,
                                 !.hasDescription = a.hasDescription,
                                 !.description = a.description,
                                 !.rowcount = a.rowcount]]
    /\ UNCHANGED <<env, pureIn, pureOut>>

\* rows = cursor.fetchall(); count = cursor.fetchone()[0]
Fetch(i) ==
    /\ inv[i].pc = "fetch"
    /\ LET v == [inv[i] EXCEPT !.nFetch = @ + 1]
       IN  \/ inv' = [inv EXCEPT ![i] = Except(v, DriverMessage("fetch"), "fetch")]
           \/ \E r \in FetchAnswers(v.op) :
                 inv' = [inv EXCEPT ![i] =
                    [v EXCEPT !.rows = r, !.pc = "close",
                              !.output =
                                  IF v.op \in {"execute_sql",
                                               "report_trial_balance_by_seg_ref"}
                                  THEN FormatCsv(v.columns, r) ELSE <<>>]]
    /\ UNCHANGED <<env, conns, pureIn, pureOut>>

\* conn.commit(); affected_rows = cursor.rowcount
Commit(i) ==
    /\ inv[i].pc = "commit"
    /\ LET v == [inv[i] EXCEPT !.nCommit = @ + 1]
       IN  \/ /\ inv' = [inv EXCEPT ![i] = Except(v, DriverMessage("commit"), "commit")]
              /\ UNCHANGED conns
           \/ /\ inv' = [inv EXCEPT ![i] =
                    [v EXCEPT !.pc = "close", !.output = AffectedText(Conn(i).rowcount)]]
              /\ conns' = [conns EXCEPT ![i][Len(conns[i])].committed = TRUE]
    /\ UNCHANGED <<env, pureIn, pureOut>>

\* cursor.close(); conn.close()
Close(i) ==
    /\ inv[i].pc = "close"
    /\ inv' = [inv EXCEPT ![i].pc = "return"]
    /\ conns' = [conns EXCEPT ![i][Len(conns[i])] =
                    [@ EXCEPT !.cursor = "closed", !.open = FALSE]]
    /\ UNCHANGED <<env, pureIn, pureOut>>

\* the text of the return statement that ends the try block
OutputOf(v) ==
    CASE v.op \in {"execute_sql", "report_trial_balance_by_seg_ref"} -> v.output
      [] v.op = "count_user_logins" ->
            CountText(v.args[1].s, v.rows[1][1], PyStr(v.args[2]))
      [] v.op = "list_sql_tables" -> ListTablesText(v.rows)
      [] v.op = "read_table_preview" -> PreviewText(v.columns, v.rows)

ReturnOutput(i) ==
    /\ inv[i].pc = "return"
    /\ inv' = [inv EXCEPT ![i] = Finish(@, StringResult(OutputOf(@)), "")]
    /\ UNCHANGED <<env, conns, pureIn, pureOut>>

\* ping: return "pong"
Ping(i) ==
    /\ inv[i].pc = "body"
    /\ inv' = [inv EXCEPT ![i] = Finish(@, StringResult(<<"pong">>), "")]
    /\ UNCHANGED <<env, conns, pureIn, pureOut>>

\* the process environment changes between or during calls
SetEnv ==
    /\ \E e \in ServerEnvs \ {env} : env' = e
    /\ UNCHANGED <<inv, conns, pureIn, pureOut>>

\* The server as it runs: no handler awaits anything, so the event loop
\* runs one invocation from its first statement to its return before it
\* takes the next.
Init == InitServer({1})

Next ==
    \/ SetEnv
    \/ \E i \in Procs : Dispatch(i)
    \/ \E i \in Procs : GetConfig(i)
    \/ \E i \in Procs : Validate(i)
    \/ \E i \in Procs : Connect(i)
    \/ \E i \in Procs : Cursor(i)
    \/ \E i \in Procs : Execute(i)
    \/ \E i \in Procs : Fetch(i)
    \/ \E i \in Procs : Commit(i)
    \/ \E i \in Procs : Close(i)
    \/ \E i \in Procs : ReturnOutput(i)
    \/ \E i \in Procs : Ping(i)
    \/ \E i \in Procs : Deliver(i)

Spec == Init /\ [][Next]_vars

\* The server under a transport that runs NumInv invocations at once, their
\* statements interleaved in any order.
InitConcurrent == InitServer(1..NumInv)

NextConcurrent ==
    \/ SetEnv
    \/ \E i \in Procs : DispatchConcurrent(i)
    \/ \E i \in Procs : GetConfig(i)
    \/ \E i \in Procs : Validate(i)
    \/ \E i \in Procs : Connect(i)
    \/ \E i \in Procs : Cursor(i)
    \/ \E i \in Procs : Execute(i)
    \/ \E i \in Procs : Fetch(i)
    \/ \E i \in Procs : Commit(i)
    \/ \E i \in Procs : Close(i)
    \/ \E i \in Procs : ReturnOutput(i)
    \/ \E i \in Procs : Ping(i)
    \/ \E i \in Procs : Deliver(i)

SpecConcurrent == InitConcurrent /\ [][NextConcurrent]_vars

----------------------------------------------------------------------------
(* The pure functions on drawn inputs.                                     *)

ServerIdle ==
    /\ env = NoEnv
    /\ inv = [i \in {1} |-> IdleInv]
    /\ conns = [i \in {1} |-> <<>>]

Apply(fn, out) ==
    /\ pureIn.fn = fn
    /\ pureOut.exc = "pending"
    /\ pureOut' = out
    /\ UNCHANGED <<env, inv, conns, pureIn>>

InitValidate ==
    /\ ServerIdle
    /\ pureIn \in {[fn |-> "validate_table_name", arg |-> n] :
                      n \in SeqsUpTo(NameAlphabet, MaxNameLen)}
    /\ pureOut = Pending

ApplyValidate == Apply("validate_table_name", validate_table_name(pureIn.arg))

SpecValidate == InitValidate /\ [][ApplyValidate]_vars

InitConfig ==
    /\ ServerIdle
    /\ pureIn \in {[fn |-> "get_db_config", arg |-> e] : e \in Environments}
    /\ pureOut = Pending

ApplyConfig == Apply("get_db_config", get_db_config(pureIn.arg))

SpecConfig == InitConfig /\ [][ApplyConfig]_vars

InitFormat ==
    /\ ServerIdle
    /\ pureIn \in {[fn |-> "format", arg |-> x] : x \in FormatInputs}
    /\ pureOut = Pending

ApplyFormat ==
    Apply("format", Value(ResultText(pureIn.arg.op, pureIn.arg.columns, pureIn.arg.rows)))

SpecFormat == InitFormat /\ [][ApplyFormat]_vars

----------------------------------------------------------------------------
(* Properties.                                                             *)

\* sub occurs in text as a run of consecutive tokens
Contains(text, sub) ==
    \E k \in 1..(Len(text) - Len(sub) + 1) : SubSeq(text, k, k + Len(sub) - 1) = sub

\* an error text: it opens with the fixed words of an except clause
IsErrorText(text) ==
    /\ text # <<>>
    /\ text[1] \in {"Error executing query: ", "Error: ", "Error listing tables: ",
                    "Error reading table '"}

Done(i) == inv[i].pc = "done"

Applied(fn) == pureIn.fn = fn /\ pureOut.exc # "pending"

\* C1: every invocation of every handler ends by returning one string, never
\* by an exception leaving the handler, and when the configuration, the
\* table name or a driver call failed the string is an error text.
C1_AlwaysReturnsString ==
    \A i \in Procs :
        Done(i) =>
            /\ inv[i].result.kind = "string"
            /\ inv[i].failedAt # "" => IsErrorText(inv[i].result.text)

\* C2: when an invocation has ended, every connection it opened is closed
\* and so is its cursor, on every exit path.
C2_ClosedOnEveryExit ==
    \A i \in Procs :
        Done(i) =>
            \A k \in DOMAIN conns[i] :
                ~conns[i][k].open /\ conns[i][k].cursor # "open"

\* one or more characters, all of [A-Za-z0-9_]
IsSegment(part) == part # <<>> /\ \A k \in DOMAIN part : IsWordChar(part[k])

\* one segment, or exactly two separated by a single dot
IsIdentifier(name) ==
    LET parts == Split(name, ".")
    IN  Len(parts) \in {1, 2} /\ \A k \in DOMAIN parts : IsSegment(parts[k])

\* every segment in square brackets, rejoined with a dot
Bracketed(name) ==
    LET parts == Split(name, ".")
    IN  Join([k \in DOMAIN parts |-> <<"[">> \o parts[k] \o <<"]">>], <<".">>)

\* C3: validate_table_name accepts exactly the identifiers (one or two
\* segments of [A-Za-z0-9_]) and returns them bracketed; every other string,
\* also one with a newline as its last character, is rejected.
C3_AcceptsExactlyIdentifiers ==
    Applied("validate_table_name") =>
        IF IsIdentifier(pureIn.arg)
        THEN pureOut.ok /\ pureOut.val = Bracketed(pureIn.arg)
        ELSE ~pureOut.ok

\* C4: read_table_preview with a table name the validator rejects returns an
\* error string that contains the name, and attempts no connection:
\* validation comes before the connect step.
C4_RejectedNameNoConnect ==
    \A i \in Procs :
        inv[i].op = "read_table_preview" =>
            /\ inv[i].nConnect > 0 => inv[i].nValidate > 0
            /\ ~validate_table_name(inv[i].args[1].s).ok =>
                  /\ inv[i].nConnect = 0
                  /\ conns[i] = <<>>
                  /\ Done(i) =>
                        /\ inv[i].result.kind = "string"
                        /\ IsErrorText(inv[i].result.text)
                        /\ Contains(inv[i].result.text, inv[i].args[1].s)

\* the integrated-auth flag of the environment e is true
FlagIsTrue(e) ==
    /\ e["MSSQL_WINDOWS_AUTH"].set
    /\ Lower(e["MSSQL_WINDOWS_AUTH"].val) = <<"t", "r", "u", "e">>

\* C5: a configuration returned by get_db_config has, under integrated
\* authentication, a non-empty database and no user and no password entry,
\* and otherwise non-empty user, password and database; when a required
\* value is unset or empty no configuration is returned.
C5_AuthModeInvariant ==
    Applied("get_db_config") =>
        LET e == pureIn.arg
            c == pureOut.val
        IN  /\ pureOut.ok /\ FlagIsTrue(e) =>
                  /\ c.database = e["MSSQL_DATABASE"] /\ Truthy(c.database)
                  /\ "user" \notin c.keys /\ "password" \notin c.keys
                  /\ c.user = None /\ c.password = None
            /\ pureOut.ok /\ ~FlagIsTrue(e) =>
                  /\ {"user", "password", "database"} \subseteq c.keys
                  /\ c.user = e["MSSQL_USER"] /\ Truthy(c.user)
                  /\ c.password = e["MSSQL_PASSWORD"] /\ Truthy(c.password)
                  /\ c.database = e["MSSQL_DATABASE"] /\ Truthy(c.database)
            /\ ~FlagIsTrue(e) /\ (\E n \in {"MSSQL_USER", "MSSQL_PASSWORD", "MSSQL_DATABASE"} :
                                     ~Truthy(e[n]))
                  => ~pureOut.ok
            /\ FlagIsTrue(e) /\ ~Truthy(e["MSSQL_DATABASE"]) => ~pureOut.ok

\* integrated authentication with MSSQL_USER and MSSQL_PASSWORD set: a
\* configuration came back
C5_Witness ==
    /\ Applied("get_db_config")
    /\ pureOut.ok
    /\ FlagIsTrue(pureIn.arg)
    /\ Truthy(pureIn.arg["MSSQL_USER"]) /\ Truthy(pureIn.arg["MSSQL_PASSWORD"])

\* C6: in execute_sql a statement that executed with a column description
\* is fetched and never committed, and its result is the header-and-rows
\* text; one that executed without a description is committed, and only
\* after the commit is the text 'Rows affected: <rowcount>' made, with the
\* engine's count; nothing is committed when the execute step failed.
C6_ClassifiedByDescription ==
    \A i \in Procs :
        inv[i].op = "execute_sql" =>
            /\ inv[i].nCommit > 0 =>
                  /\ inv[i].failedAt # "execute"
                  /\ Conn(i).executed /\ ~Conn(i).hasDescription
            /\ inv[i].nExecute > 0 /\ Conn(i).executed /\ Conn(i).hasDescription =>
                  /\ inv[i].nCommit = 0 /\ ~Conn(i).committed
                  /\ Done(i) /\ inv[i].failedAt = "" =>
                        /\ inv[i].nFetch = 1
                        /\ inv[i].result.text = FormatCsv(Conn(i).description, inv[i].rows)
            /\ inv[i].nExecute > 0 /\ Conn(i).executed /\ ~Conn(i).hasDescription =>
                  /\ inv[i].nFetch = 0
                  /\ inv[i].output # <<>> => Conn(i).committed
                  /\ Done(i) /\ inv[i].failedAt = "" =>
                        /\ Conn(i).committed /\ inv[i].nCommit = 1
                        /\ inv[i].result.text =
                              <<"Query executed successfully. Rows affected: ">>
                                  \o IntToStr(Conn(i).rowcount)

\* execute_sql returned the status text of a committed statement
C6_Witness ==
    \E i \in Procs :
        /\ inv[i].op = "execute_sql" /\ Done(i) /\ inv[i].failedAt = ""
        /\ ~Conn(i).hasDescription /\ Conn(i).committed
        /\ inv[i].result.text =
              <<"Query executed successfully. Rows affected: ", "3">>

\* text is the line header followed by one line per row, the cells of each
\* row comma-separated in order
HeaderAndRows(text, header, rows) ==
    LET lines == Split(text, "\n")
    IN  /\ Len(lines) = 1 + Len(rows)
        /\ lines[1] = header
        /\ \A k \in DOMAIN rows :
              Split(lines[k + 1], ",") = [j \in DOMAIN rows[k] |-> PyStr(rows[k][j])]

\* columns [a, b] with rows [[1, 2], [3, 4]]
ExampleResultSet ==
    [op |-> "execute_sql", columns |-> << <<"a">>, <<"b">> >>,
     rows |-> << <<IntCell(1), IntCell(2)>>, <<IntCell(3), IntCell(4)>> >>]

\* what the handlers return for an empty result set
EmptyResultText(a, text) ==
    /\ a.op \in {"execute_sql", "report_trial_balance_by_seg_ref"} =>
          text = Join(a.columns, <<",">>)
    /\ a.op = "read_table_preview" => text = <<"No data found in this table.">>
    /\ a.op = "list_sql_tables" => text = <<"No tables found in this database.">>

\* C7 as stated: for every handler the text of a result set with rows is the
\* comma-joined column names, then one comma-joined line per row; with no
\* rows execute_sql and the report give the header alone, the preview and
\* the listing their 'no data' sentence.
C7_HeaderIsColumnNames ==
    Applied("format") =>
        LET a == pureIn.arg
        IN  IF a.rows # <<>>
            THEN HeaderAndRows(pureOut.val, Join(a.columns, <<",">>), a.rows)
            ELSE EmptyResultText(a, pureOut.val)

\* C7, amended: as stated, but the first line of list_sql_tables is the
\* fixed header "Schema,Table", not the column names of the cursor.
C7_HeaderIsColumnNamesButListing ==
    Applied("format") =>
        LET a == pureIn.arg
        IN  /\ a.rows # <<>> /\ a.op # "list_sql_tables" =>
                  HeaderAndRows(pureOut.val, Join(a.columns, <<",">>), a.rows)
            /\ a.rows # <<>> /\ a.op = "list_sql_tables" =>
                  HeaderAndRows(pureOut.val,
                      <<"S", "c", "h", "e", "m", "a", ",", "T", "a", "b", "l", "e">>,
                      a.rows)
            /\ a.rows = <<>> => EmptyResultText(a, pureOut.val)
            /\ a = ExampleResultSet =>
                  pureOut.val =
                      <<"a", ",", "b", "\n", "1", ",", "2", "\n", "3", ",", "4">>

\* the example result set has been formatted
C7_Witness ==
    /\ Applied("format")
    /\ pureIn.arg = ExampleResultSet
    /\ Len(Split(pureOut.val, "\n")) = 3

\* C8: an invocation attempts at most one connection and submits at most one
\* statement; after a failed connect or a failed statement it has ended with
\* an error string and without a further attempt; ping attempts no
\* connection, reads no configuration and returns "pong".
C8_NoRetries ==
    \A i \in Procs :
        /\ inv[i].nConnect <= 1 /\ inv[i].nExecute <= 1
        /\ Len(conns[i]) <= 1
        /\ inv[i].failedAt = "connect" =>
              /\ Done(i) /\ inv[i].nConnect = 1 /\ inv[i].nExecute = 0
              /\ inv[i].result.kind = "string" /\ IsErrorText(inv[i].result.text)
        /\ inv[i].failedAt = "execute" =>
              /\ Done(i) /\ inv[i].nConnect = 1 /\ inv[i].nExecute = 1
              /\ inv[i].nFetch = 0 /\ inv[i].nCommit = 0
              /\ inv[i].result.kind = "string" /\ IsErrorText(inv[i].result.text)
        /\ inv[i].op = "ping" =>
              /\ inv[i].nConfig = 0 /\ inv[i].nConnect = 0 /\ inv[i].nExecute = 0
              /\ Done(i) => inv[i].result = StringResult(<<"pong">>)

\* an invocation has ended after its one connection attempt failed
C8_Witness ==
    \E i \in Procs :
        /\ Done(i) /\ inv[i].failedAt = "connect" /\ inv[i].nConnect = 1
        /\ IsErrorText(inv[i].result.text)

\* the result of an invocation as a function of its call, of the environment
\* it read and of what the driver answered on its own connection
ExpectedResult(v, c) ==
    LET cfg == get_db_config(v.envRead)
    IN  CASE v.op = "ping" -> StringResult(<<"pong">>)
          [] v.op # "ping" /\ ~cfg.ok -> Raised(cfg)
          [] v.op # "ping" /\ cfg.ok /\ v.failedAt = "validate" ->
                StringResult(ErrorText(v.op, v.args, validate_table_name(v.args[1].s).val))
          [] v.op # "ping" /\ cfg.ok /\ v.failedAt \notin {"", "validate"} ->
                StringResult(ErrorText(v.op, v.args, DriverMessage(v.failedAt)))
          [] v.op # "ping" /\ cfg.ok /\ v.failedAt = "" ->
                StringResult(
                    CASE v.op = "execute_sql" /\ ~c[1].hasDescription ->
                            AffectedText(c[1].rowcount)
                      [] v.op = "execute_sql" /\ c[1].hasDescription ->
                            FormatCsv(c[1].description, v.rows)
                      [] v.op = "report_trial_balance_by_seg_ref" ->
                            FormatCsv(c[1].description, v.rows)
                      [] v.op = "count_user_logins" ->
                            CountText(v.args[1].s, v.rows[1][1], PyStr(v.args[2]))
                      [] v.op = "list_sql_tables" -> ListTablesText(v.rows)
                      [] v.op = "read_table_preview" ->
                            PreviewText(c[1].description, v.rows))

\* the configuration, the connections and the result of every invocation
\* come from its own call and from the environment it read itself
OwnStateOnly ==
    \A i \in Procs :
        /\ inv[i].nConfig <= 1
        /\ inv[i].pc \notin {"idle", "config", "body"} /\ inv[i].op # "ping" =>
              inv[i].nConfig = 1
        /\ inv[i].nConfig = 1 =>
              IF inv[i].failedAt = "config"
              THEN ~get_db_config(inv[i].envRead).ok
              ELSE get_db_config(inv[i].envRead) = Value(inv[i].config)
        /\ \A k \in DOMAIN conns[i] : conns[i][k].config = inv[i].config
        /\ inv[i].failedAt = "validate" => ~validate_table_name(inv[i].args[1].s).ok
        /\ Done(i) => inv[i].result = ExpectedResult(inv[i], conns[i])

\* a step that changes the connections of one invocation is a step of that
\* invocation, and it changes no other invocation
OwnConnectionOnly ==
    \A i \in Procs :
        conns'[i] # conns[i] =>
            /\ inv'[i] # inv[i]
            /\ \A j \in Procs \ {i} : inv'[j] = inv[j] /\ conns'[j] = conns[j]

\* C9: under any interleaving every invocation uses its own configuration,
\* connection, cursor and result only; its result is a function of its own
\* arguments, of the environment it read and of the answers on its own
\* connection; the configuration is read from the environment again by
\* every invocation.
C9_Isolation == []OwnStateOnly /\ [][OwnConnectionOnly]_vars

\* two invocations in flight at once, each with an open connection, under
\* configurations read from different environments
C9_Witness ==
    \E i, j \in Procs :
        /\ i # j
        /\ inv[i].pc = "execute" /\ inv[j].pc = "execute"
        /\ inv[i].envRead # inv[j].envRead
        /\ inv[i].config # inv[j].config
        /\ Conn(i).open /\ Conn(j).open

\* C10: a configuration returned by get_db_config has a port in 1..65535,
\* 1433 when MSSQL_PORT is unset; a value outside the range yields no
\* configuration.
C10_PortInRange ==
    Applied("get_db_config") /\ pureOut.ok =>
        /\ pureOut.val.port \in 1..65535
        /\ ~pureIn.arg["MSSQL_PORT"].set => pureOut.val.port = 1433

====
